---------------------------- MODULE Spec2Model ----------------------------
(***************************************************************************)
(* A model of the scanline pocketing engine of libgcode/gcode_pocket.c:    *)
(* gcode_pocket_init, gcode_pocket_prep, gcode_pocket_subtract and         *)
(* gcode_pocket_make.                                                      *)
(*                                                                         *)
(* Coordinates (gfloat_t) are modelled by integers and arithmetic is       *)
(* exact; one unit is GCODE_PRECISION.  C arrays are 0-based: the loop     *)
(* variables i, j, k keep their C values and slot n of a C array is        *)
(* element n + 1 of the sequence that models it.                           *)
(***************************************************************************)
EXTENDS Integers, Sequences, FiniteSets

VARIABLES
  pc,           \* which function runs and where it is
  pocket,       \* the gcode_pocket_t of gcode_pocket_prep / gcode_pocket_make
  pocket_a,     \* gcode_pocket_subtract: the pocket that is trimmed
  pocket_b,     \* gcode_pocket_subtract: the pocket that is subtracted
  heap_b,       \* what lies behind pocket_b->row_array (read out of bounds)
  i, j, k,      \* the loop variables of the running function
  x_array,      \* gcode_pocket_prep: the crossings pooled for the scanline
  index_block,  \* gcode_pocket_prep: blocks of the chain evaluated so far
  y,            \* gcode_pocket_prep: the scanline
  events,       \* gcode_pocket_make: what was appended to the block
  tool,         \* the gcode_tool_t in use
  gcode,        \* block->gcode: material_size[1], material_origin[1], ztraverse
  chain,        \* gcode_pocket_prep: number of blocks from start_block to end_block
  depth,        \* gcode_pocket_make: the pass depth
  rapid_depth,  \* gcode_pocket_make: the rapid depth
  a0,           \* history: pocket_a when gcode_pocket_subtract was called
  splits,       \* history: CASE 1 steps taken, per row
  oob,          \* history: a write went past the 64 slots of a line_array
  pooled        \* history: the crossings pooled for each finished scanline

vars == <<pc, pocket, pocket_a, pocket_b, heap_b, i, j, k, x_array, index_block,
          y, events, tool, gcode, chain, depth, rapid_depth, a0, splits, oob,
          pooled>>

(***************************************************************************)
(* Bounds of the model.                                                    *)
(***************************************************************************)
MaxCoord == 5       \* subtract, one-row pockets: coordinates 0..MaxCoord
MaxLines == 2       \* subtract, one-row pockets: lines per row
MaxRows == 2        \* subtract, several rows: rows per pocket
MultiCoord == 2     \* subtract, several rows: coordinates 0..MultiCoord
MaxK == 3           \* prep: crossings at 0, 20, ..., 20 * MaxK
MaxBlocks == 2      \* prep: blocks from start_block to end_block
MaxSize == 1        \* prep: material_size[1] in 0..MaxSize
MakeCoord == 2      \* make: coordinates 0..MakeCoord
MakeLines == 2      \* make: lines per row
MakeRows == 3       \* make: rows of the pocket

(***************************************************************************)
(* Program constants.                                                      *)
(***************************************************************************)
GCODE_PRECISION == 1
LINE_CAPACITY == 64

Abs(x) == IF x < 0 THEN -x ELSE x
Min(x, z) == IF x < z THEN x ELSE z
Max(x, z) == IF x > z THEN x ELSE z

(***************************************************************************)
(* gcode_pocket_t and gcode_pocket_row_t.  line_array holds the slots that *)
(* were written; line_num of them count.                                   *)
(***************************************************************************)
Row(yy, lines) == [y |-> yy, line_num |-> Len(lines), line_array |-> lines]

Pocket(res, seg, rows) ==
  [row_num |-> Len(rows), seg_num |-> seg, resolution |-> res, row_array |-> rows]

\* gcode_pocket_init
PocketInit(resolution) ==
  [row_num |-> 0, seg_num |-> 0, resolution |-> resolution, row_array |-> <<>>]

\* The lines of a row that count.
Lines(row) == SubSeq(row.line_array, 1, row.line_num)

(***************************************************************************)
(*                        gcode_pocket_subtract                            *)
(***************************************************************************)

\* pocket_b->row_array[r]: behind the array the read returns what lies there.
BRow(r) ==
  IF r < pocket_b.row_num THEN pocket_b.row_array[r + 1]
  ELSE heap_b[r - pocket_b.row_num + 1]

\* CASE 1: both ends of line bl inside line al, within GCODE_PRECISION.
Contained(bl, al) ==
  /\ bl[1] + GCODE_PRECISION >= al[1]
  /\ bl[1] - GCODE_PRECISION <= al[2]
  /\ bl[2] + GCODE_PRECISION >= al[1]
  /\ bl[2] - GCODE_PRECISION <= al[2]

\* CASE 2: bl starts strictly inside al.
OverlapRight(bl, al) == bl[1] > al[1] /\ bl[1] < al[2]

\* CASE 3: bl ends strictly inside al.
OverlapLeft(bl, al) == bl[2] > al[1] /\ bl[2] < al[2]

\* line_array[n] = v for the C slot n.
Store(arr, n, v) ==
  IF n + 1 <= Len(arr) THEN [arr EXCEPT ![n + 1] = v] ELSE Append(arr, v)

\* ShiftUp with the loop ending one line early: for (...; l > jj + 1; l--).
RECURSIVE ShiftUpStopsEarly(_, _, _)
ShiftUpStopsEarly(arr, l, jj) ==
  IF l > jj + 1 THEN ShiftUpStopsEarly(Store(arr, l + 1, arr[l + 1]), l - 1, jj) ELSE arr

\* for (l = ...; l > jj; l--) line_array[l + 1] = line_array[l];
RECURSIVE ShiftUp(_, _, _)
ShiftUp(arr, l, jj) ==
  IF l > jj THEN ShiftUp(Store(arr, l + 1, arr[l + 1]), l - 1, jj) ELSE arr

\* CASE 1 on line jj of the row: shift up, insert, trim, count.
SplitLine(row, jj, bl) ==
  LET shifted == ShiftUp(row.line_array, row.line_num - 1, jj)
      right == Store(shifted, jj + 1, <<bl[2], shifted[jj + 1][2]>>)
      left == Store(right, jj, <<right[jj + 1][1], bl[1]>>)
  IN [row EXCEPT !.line_array = left, !.line_num = row.line_num + 1]

\* CASE 2 on line jj of the row.
TrimEnd(row, jj, bl) ==
  [row EXCEPT !.line_array[jj + 1] = <<row.line_array[jj + 1][1], bl[1]>>]

\* CASE 3 on line jj of the row.
TrimStart(row, jj, bl) ==
  [row EXCEPT !.line_array[jj + 1] = <<bl[2], row.line_array[jj + 1][2]>>]

\* The loop variables after the body ran at (jj, kk): the next (j, k) at which
\* the body runs in this row, or <<>> when the row is finished.
RECURSIVE RowPos(_, _, _, _)
RowPos(alen, blen, jj, kk) ==
  IF jj >= alen THEN <<>>
  ELSE IF kk >= blen THEN RowPos(alen, blen, jj + 1, 0)
  ELSE <<jj, kk>>

\* Where the loops stand once row i of pocket_a has become `row` and the
\* next candidate is (jj, kk).
Advance(row, jj, kk) ==
  LET pos == RowPos(row.line_num, BRow(i).line_num, jj, kk)
  IN /\ pocket_a' = [pocket_a EXCEPT !.row_array[i + 1] = row]
     /\ IF pos = <<>>
        THEN pc' = "row" /\ i' = i + 1 /\ j' = 0 /\ k' = 0
        ELSE pc' = "cmp" /\ i' = i /\ j' = pos[1] /\ k' = pos[2]

ARow == pocket_a.row_array[i + 1]
ALine == ARow.line_array[j + 1]
BLine == BRow(i).line_array[k + 1]

SubFrame == UNCHANGED <<pocket, pocket_b, heap_b, x_array, index_block, y, events,
                        tool, gcode, chain, depth, rapid_depth, a0, pooled>>

\* for (i = 0; i < pocket_a->row_num; i++): the loop ends.
SubReturn ==
  /\ pc = "row" /\ i >= pocket_a.row_num
  /\ pc' = "done"
  /\ UNCHANGED <<pocket_a, i, j, k, splits, oob>>
  /\ SubFrame

\* The loop enters row i: j = 0, k = 0, and both line_num are read.
SubRow ==
  /\ pc = "row" /\ i < pocket_a.row_num
  /\ Advance(ARow, 0, 0)
  /\ UNCHANGED <<splits, oob>>
  /\ SubFrame

\* Row i lies behind pocket_b->row_array and the read faults.
SubReadFault ==
  /\ pc = "row" /\ i < pocket_a.row_num /\ i >= pocket_b.row_num
  /\ ARow.line_num > 0
  /\ pc' = "crashed"
  /\ UNCHANGED <<pocket_a, i, j, k, splits, oob>>
  /\ SubFrame

\* CASE 1, the row has a free slot.
SubCase1 ==
  /\ pc = "cmp" /\ Contained(BLine, ALine)
  /\ ARow.line_num < LINE_CAPACITY
  /\ Advance(SplitLine(ARow, j, BLine), j + 1, k + 1)
  /\ splits' = [splits EXCEPT ![i + 1] = @ + 1]
  /\ UNCHANGED oob
  /\ SubFrame

\* CASE 1, all 64 slots are in use and the write lands behind the array.
SubCase1Beyond ==
  /\ pc = "cmp" /\ Contained(BLine, ALine)
  /\ ARow.line_num >= LINE_CAPACITY
  /\ Advance(SplitLine(ARow, j, BLine), j + 1, k + 1)
  /\ splits' = [splits EXCEPT ![i + 1] = @ + 1]
  /\ oob' = TRUE
  /\ SubFrame

\* CASE 1, all 64 slots are in use and the write behind the array faults.
SubCase1Fault ==
  /\ pc = "cmp" /\ Contained(BLine, ALine)
  /\ ARow.line_num >= LINE_CAPACITY
  /\ pc' = "crashed"
  /\ oob' = TRUE
  /\ UNCHANGED <<pocket_a, i, j, k, splits>>
  /\ SubFrame

\* CASE 2
SubCase2 ==
  /\ pc = "cmp" /\ ~Contained(BLine, ALine) /\ OverlapRight(BLine, ALine)
  /\ Advance(TrimEnd(ARow, j, BLine), j, k + 1)
  /\ UNCHANGED <<splits, oob>>
  /\ SubFrame

\* CASE 3
SubCase3 ==
  /\ pc = "cmp" /\ ~Contained(BLine, ALine) /\ ~OverlapRight(BLine, ALine)
  /\ OverlapLeft(BLine, ALine)
  /\ Advance(TrimStart(ARow, j, BLine), j, k + 1)
  /\ UNCHANGED <<splits, oob>>
  /\ SubFrame

\* None of the three cases.
SubNoOverlap ==
  /\ pc = "cmp" /\ ~Contained(BLine, ALine) /\ ~OverlapRight(BLine, ALine)
  /\ ~OverlapLeft(BLine, ALine)
  /\ Advance(ARow, j, k + 1)
  /\ UNCHANGED <<splits, oob>>
  /\ SubFrame

NextSub ==
  \/ SubReturn
  \/ SubRow
  \/ SubReadFault
  \/ SubCase1
  \/ SubCase1Beyond
  \/ SubCase1Fault
  \/ SubCase2
  \/ SubCase3
  \/ SubNoOverlap

(***************************************************************************)
(* The pockets gcode_pocket_subtract is called with.                       *)
(***************************************************************************)
Intervals(m) == {<<s, e>> : s \in 0..m, e \in 0..m} \ {l \in (0..m) \X (0..m) : l[1] > l[2]}

LineSeqs(m, n) == UNION {[1..len -> Intervals(m)] : len \in 0..n}

\* start <= end, left to right, no two lines overlapping.
WellFormed(lines) ==
  /\ \A n \in 1..Len(lines) : lines[n][1] <= lines[n][2]
  /\ \A n \in 1..(Len(lines) - 1) : lines[n][2] <= lines[n + 1][1]

StartLeEnd(lines) == \A n \in 1..Len(lines) : lines[n][1] <= lines[n][2]

\* A row of `teeth` lines <<4n, 4n + 3>>.
Comb(teeth) == [n \in 1..teeth |-> <<4 * (n - 1), 4 * (n - 1) + 3>>]

\* Rows at y = 0, res, 2 res, ...
GridOf(res, lineSeqs) ==
  Pocket(res, Len(lineSeqs), [r \in 1..Len(lineSeqs) |-> Row((r - 1) * res, lineSeqs[r])])

Idle ==
  /\ pocket = PocketInit(1)
  /\ x_array = <<>> /\ index_block = 0 /\ y = 0 /\ events = <<>>
  /\ tool = [diameter |-> 1]
  /\ gcode = [material_size |-> 0, material_origin |-> 0, ztraverse |-> 0]
  /\ chain = 0 /\ depth = 0 /\ rapid_depth = 0 /\ pooled = <<>>

SubStart ==
  /\ pc = "row" /\ i = 0 /\ j = 0 /\ k = 0
  /\ a0 = pocket_a
  /\ splits = [r \in 1..pocket_a.row_num |-> 0]
  /\ oob = FALSE
  /\ Idle

\* One row each, up to MaxLines lines.
InitOneRow ==
  /\ \E al \in {s \in LineSeqs(MaxCoord, MaxLines) : WellFormed(s)} :
       pocket_a = GridOf(1, <<al>>)
  /\ \E bl \in LineSeqs(MaxCoord, MaxLines) : pocket_b = GridOf(1, <<bl>>)
  /\ heap_b = <<>>

\* Up to MaxRows rows each, at most one line per row; the pockets may differ
\* in row count and resolution.
InitRows ==
  /\ \E na \in 1..MaxRows :
       \E al \in [1..na -> LineSeqs(MultiCoord, 1)] : pocket_a = GridOf(1, al)
  /\ \E nb \in 1..MaxRows, res \in 1..2 :
       \E bl \in [1..nb -> LineSeqs(MultiCoord, 1)] : pocket_b = GridOf(res, bl)
  /\ \E hl \in [1..Max(0, pocket_a.row_num - pocket_b.row_num) -> LineSeqs(MultiCoord, 1)] :
       heap_b = [r \in 1..Len(hl) |-> Row(0, hl[r])]

\* A row whose line_array is full or one short of it, and lines inside its
\* first and last line.
InitFull ==
  /\ \E teeth \in {LINE_CAPACITY - 1, LINE_CAPACITY} :
       /\ pocket_a = GridOf(1, <<Comb(teeth)>>)
       /\ \E bl \in {<<<<1, 2>>>>, <<<<4 * (teeth - 1) + 1, 4 * (teeth - 1) + 2>>>>,
                     <<<<1, 1>>, <<2, 2>>>>} :
            pocket_b = GridOf(1, <<bl>>)
  /\ heap_b = <<>>

(***************************************************************************)
(*                  Properties of gcode_pocket_subtract                    *)
(***************************************************************************)

\* Same row count, same resolution, same y row by row.
Aligned ==
  /\ a0.row_num = pocket_b.row_num
  /\ a0.resolution = pocket_b.resolution
  /\ \A r \in 1..a0.row_num : a0.row_array[r].y = pocket_b.row_array[r].y

WellFormedGrid(p) == \A r \in 1..p.row_num : WellFormed(Lines(p.row_array[r]))

\* The point x, and the piece from x to x + 1, lie in a line of the row.
PointCovered(row, x) ==
  \E n \in 1..row.line_num : row.line_array[n][1] <= x /\ x <= row.line_array[n][2]

PieceCovered(row, x) ==
  \E n \in 1..row.line_num : row.line_array[n][1] <= x /\ x + 1 <= row.line_array[n][2]

\* The piece from x to x + 1 lies in a line of the row, more than
\* GCODE_PRECISION away from both of its ends.
PieceDeepIn(row, x) ==
  \E n \in 1..row.line_num :
    /\ row.line_array[n][1] + GCODE_PRECISION <= x
    /\ x + 1 <= row.line_array[n][2] - GCODE_PRECISION

\* The piece from x to x + 1 is within GCODE_PRECISION of a line of the row.
PieceNear(row, x) ==
  \E n \in 1..row.line_num :
    /\ row.line_array[n][1] - GCODE_PRECISION <= x + 1
    /\ x <= row.line_array[n][2] + GCODE_PRECISION

\* Every coordinate of the pockets, and two units around them.
XRange == -2..(Max(MaxCoord, 4 * LINE_CAPACITY) + 2)

SubRows == 1..a0.row_num

\* C1: for row-aligned, ordered, non-overlapping pockets, after the call a
\* row of A covers what it covered before minus what B's row covers, up to
\* GCODE_PRECISION at the ends: no piece of A is left deep inside a line of
\* B (whatever the relative position of the two lines), nothing away from
\* B is lost and nothing away from the old A is gained.
C1_RowDifference ==
  (pc = "done" /\ Aligned /\ WellFormedGrid(a0) /\ WellFormedGrid(pocket_b)) =>
    \A r \in SubRows : \A x \in XRange :
      LET before == a0.row_array[r]
          after == pocket_a.row_array[r]
          b == pocket_b.row_array[r]
      IN /\ PieceCovered(after, x) => ~PieceDeepIn(b, x)
         /\ (PieceDeepIn(before, x) /\ ~PieceNear(b, x)) => PieceCovered(after, x)
         /\ PieceCovered(after, x) => PieceNear(before, x)

\* C2: after the call every point and every piece of a row of A was in the
\* row before the call, for every B whose lines have start <= end.
C2_NeverGrows ==
  (pc = "done" /\ Aligned
     /\ \A r \in SubRows : StartLeEnd(Lines(pocket_b.row_array[r]))) =>
    \A r \in SubRows : \A x \in XRange :
      /\ PointCovered(pocket_a.row_array[r], x) => PointCovered(a0.row_array[r], x)
      /\ PieceCovered(pocket_a.row_array[r], x) => PieceCovered(a0.row_array[r], x)

\* C3: for ordered, non-overlapping A and B the rows of A stay ordered and
\* non-overlapping with start <= end, after every single split or trim.
C3_StaysOrdered ==
  (Aligned /\ WellFormedGrid(a0) /\ WellFormedGrid(pocket_b)) =>
    WellFormedGrid(pocket_a)

\* C4: no line_array is written at or behind slot 64, and no row counts
\* more than 64 lines.
C4_WithinCapacity ==
  /\ ~oob
  /\ \A r \in 1..pocket_a.row_num :
       /\ pocket_a.row_array[r].line_num <= LINE_CAPACITY
       /\ Len(pocket_a.row_array[r].line_array) <= LINE_CAPACITY

\* C9: pockets that differ in row count, resolution or extent are rejected:
\* A stays as it was, no line is compared and no row of B is read behind
\* B's row count.
C9_MismatchRejected ==
  ~Aligned => (pocket_a = a0 /\ pc \notin {"cmp", "crashed"})

\* C10 as stated: the final count of a row is its initial count plus the
\* number of B lines of the row that are fully contained in a line of A.
C10_CountByBLines ==
  (pc = "done" /\ Aligned /\ WellFormedGrid(a0) /\ WellFormedGrid(pocket_b)) =>
    \A r \in SubRows :
      pocket_a.row_array[r].line_num =
        a0.row_array[r].line_num
          + Cardinality({kk \in 1..pocket_b.row_array[r].line_num :
                           \E n \in 1..a0.row_array[r].line_num :
                             Contained(pocket_b.row_array[r].line_array[kk],
                                       a0.row_array[r].line_array[n])})


\* The pairs of a line of A's row r as it was and a line of B's row r that
\* the line of A contains, within GCODE_PRECISION.
ContainedPairs(r) ==
  {p \in (1..a0.row_array[r].line_num) \X (1..pocket_b.row_array[r].line_num) :
     Contained(pocket_b.row_array[r].line_array[p[2]], a0.row_array[r].line_array[p[1]])}

\* C10, amended: a comparison that finds the line of B contained in line j
\* of A puts [A.start, B.start] at j and [B.end, A.end] at j + 1, moves the
\* later lines up by one, keeps the earlier ones and counts one line more;
\* every other comparison leaves the count, and no comparison touches another
\* row.  So a row counts its initial lines plus the splits made in it, and
\* for ordered, non-overlapping rows that is the initial count plus the
\* number of (A line, B line) pairs with the B line contained in the A line.
C10_SplitStep ==
  /\ [][(pc = "cmp" /\ pc' # "crashed") =>
          LET n == ARow.line_num
              old == ARow.line_array
              new == pocket_a'.row_array[i + 1]
          IN /\ IF Contained(BLine, ALine)
                THEN /\ new.line_num = n + 1
                     /\ new.line_array =
                          SubSeq(old, 1, j)
                            \o <<<<ALine[1], BLine[1]>>, <<BLine[2], ALine[2]>>>>
                            \o SubSeq(old, j + 2, n)
                     /\ splits' = [splits EXCEPT ![i + 1] = @ + 1]
                ELSE /\ new.line_num = n
                     /\ Len(new.line_array) = n
                     /\ splits' = splits
             /\ \A r \in 1..pocket_a.row_num :
                  r # i + 1 => pocket_a'.row_array[r] = pocket_a.row_array[r]]_vars
  /\ [](\A r \in SubRows :
          pocket_a.row_array[r].line_num = a0.row_array[r].line_num + splits[r])
  /\ []((pc = "done" /\ Aligned /\ WellFormedGrid(a0) /\ WellFormedGrid(pocket_b)) =>
          \A r \in SubRows :
            pocket_a.row_array[r].line_num =
              a0.row_array[r].line_num + Cardinality(ContainedPairs(r)))

\* A finished call that split the first of two lines of A around a line of
\* B strictly inside it and moved the second line up.
C10_Witness ==
  /\ pc = "done" /\ Aligned
  /\ a0.row_array[1].line_num = 2 /\ pocket_b.row_array[1].line_num = 1
  /\ pocket_b.row_array[1].line_array[1][1] > a0.row_array[1].line_array[1][1]
  /\ pocket_b.row_array[1].line_array[1][2] < a0.row_array[1].line_array[1][2]
  /\ pocket_b.row_array[1].line_array[1][1] < pocket_b.row_array[1].line_array[1][2]
  /\ splits[1] = 1
  /\ pocket_a.row_array[1].line_num = 3
  /\ pocket_a.row_array[1].line_array[3] = a0.row_array[1].line_array[2]

InitSubtract == (InitOneRow \/ InitRows \/ InitFull) /\ SubStart

SpecSubtract == InitSubtract /\ [][NextSub]_vars

(***************************************************************************)
(*                          gcode_pocket_prep                              *)
(***************************************************************************)

\* qsort (x_array, x_index, ..., gcode_util_qsort_compare_asc)
RECURSIVE InsertAsc(_, _)
InsertAsc(sorted, x) ==
  IF sorted = <<>> THEN <<x>>
  ELSE IF x <= Head(sorted) THEN <<x>> \o sorted
  ELSE <<Head(sorted)>> \o InsertAsc(Tail(sorted), x)

RECURSIVE SortAsc(_)
SortAsc(xs) == IF xs = <<>> THEN <<>> ELSE InsertAsc(SortAsc(Tail(xs)), Head(xs))

\* gcode_util_remove_duplicate_scalars on a sorted array: a crossing within
\* GCODE_PRECISION of the one kept before it is dropped.
RECURSIVE RemoveDuplicateScalars(_)
RemoveDuplicateScalars(xs) ==
  IF Len(xs) < 2 THEN xs
  ELSE LET rest == RemoveDuplicateScalars(Tail(xs))
       IN IF Abs(Head(rest) - Head(xs)) < GCODE_PRECISION THEN <<Head(xs)>> \o Tail(rest)
          ELSE <<Head(xs)>> \o rest

\* KeepPair with >= for >.
KeepPairOrEqual(a, b, d) == Abs(b - a) >= d

\* fabs (x_array[i + 1] - x_array[i]) > tool->diameter
KeepPair(a, b, d) == Abs(b - a) > d

\* 0.1 * tool->diameter (the diameters of the model are multiples of 10)
Nudge(d) == d \div 10

\* for (i = 0; i + 1 < x_index; i += 2): the lines stored from pair ii on.
RECURSIVE GenerateLines(_, _, _, _)
GenerateLines(xs, ii, d, lines) ==
  IF ii + 1 < Len(xs)
  THEN GenerateLines(xs, ii + 2, d,
         IF KeepPair(xs[ii + 1], xs[ii + 2], d)
         THEN Append(lines, <<xs[ii + 1] + Nudge(d), xs[ii + 2] - Nudge(d)>>)
         ELSE lines)
  ELSE lines

\* The row gcode_pocket_prep stores for the crossings pooled at scanline yy.
PrepRowOf(xs, yy, d) ==
  LET sorted == RemoveDuplicateScalars(SortAsc(xs))
      lines == IF Len(sorted) >= 2 THEN GenerateLines(sorted, 0, d, <<>>) ELSE <<>>
  IN Row(yy, lines)

\* What one block's eval appends to x_array: up to two crossings.
Crossings == {20 * n : n \in 0..MaxK}
EvalResults == UNION {[1..len -> Crossings] : len \in 0..2}

PrepFrame == UNCHANGED <<pocket_a, pocket_b, heap_b, i, j, k, events, tool, gcode,
                         chain, depth, rapid_depth, a0, splits, oob>>

\* index_block->eval (index_block, y, x_array, &x_index)
PrepEval ==
  /\ pc = "eval" /\ index_block < chain
  /\ \E xs \in EvalResults : x_array' = x_array \o xs
  /\ index_block' = index_block + 1
  /\ UNCHANGED <<pc, pocket, y, pooled>>
  /\ PrepFrame

\* index_block == end_block: the row of this scanline is stored and the
\* scanline moves up by the resolution.
PrepRow ==
  /\ pc = "eval" /\ index_block = chain
  /\ LET row == PrepRowOf(x_array, y, tool.diameter)
     IN pocket' = [pocket EXCEPT !.row_array = Append(@, row),
                                 !.row_num = @ + 1,
                                 !.seg_num = @ + row.line_num]
  /\ pooled' = Append(pooled, x_array)
  /\ y' = y + pocket.resolution
  /\ x_array' = <<>>
  /\ index_block' = 0
  /\ pc' = IF y' <= gcode.material_size - gcode.material_origin THEN "eval" ELSE "done"
  /\ PrepFrame

NextPrep == PrepEval \/ PrepRow

ToolDiameters == {10, 20, 30}

\* gcode_pocket_init (pocket, resolution), then gcode_pocket_prep is called.
InitPrep ==
  /\ \E res \in 1..2 : pocket = PocketInit(res)
  /\ \E size \in 0..MaxSize :
       gcode = [material_size |-> size, material_origin |-> 1, ztraverse |-> 0]
  /\ \E d \in ToolDiameters : tool = [diameter |-> d]
  /\ chain \in 1..MaxBlocks
  /\ y = -gcode.material_origin
  /\ pc = "eval"
  /\ x_array = <<>> /\ index_block = 0 /\ pooled = <<>>
  /\ pocket_a = PocketInit(1) /\ pocket_b = PocketInit(1) /\ heap_b = <<>>
  /\ a0 = pocket_a /\ splits = <<>> /\ oob = FALSE
  /\ i = 0 /\ j = 0 /\ k = 0
  /\ events = <<>> /\ depth = 0 /\ rapid_depth = 0

SpecPrep == InitPrep /\ [][NextPrep]_vars

(***************************************************************************)
(*                    Properties of gcode_pocket_prep                      *)
(***************************************************************************)

\* The crossings of finished row r, sorted ascending and deduplicated.
RowCrossings(r) == RemoveDuplicateScalars(SortAsc(pooled[r]))

\* The pairs (2m - 1, 2m) of the crossings that are wider than the diameter.
KeptPairs(xs, d) == {m \in 1..(Len(xs) \div 2) : Abs(xs[2 * m] - xs[2 * m - 1]) > d}

\* The t-th kept pair from the left.
KeptPair(xs, d, t) ==
  CHOOSE m \in KeptPairs(xs, d) : Cardinality({n \in KeptPairs(xs, d) : n <= m}) = t

RECURSIVE SumLineNum(_, _)
SumLineNum(rows, n) == IF n = 0 THEN 0 ELSE rows[n].line_num + SumLineNum(rows, n - 1)

\* C5: after gcode_pocket_init and gcode_pocket_prep every row holds, in
\* ascending order, exactly the pairs (0,1), (2,3), ... of its sorted and
\* deduplicated crossings that are wider than the tool diameter (a trailing
\* crossing and a pair exactly as wide as the diameter are dropped), each
\* stored as (a + 0.1 d, b - 0.1 d) and so 0.2 d narrower than the pair, and
\* seg_num is the number of lines kept over all rows.
C5_PrepReference ==
  /\ \A r \in 1..pocket.row_num :
       LET xs == RowCrossings(r)
           d == tool.diameter
           row == pocket.row_array[r]
       IN /\ row.line_num = Cardinality(KeptPairs(xs, d))
          /\ Len(row.line_array) = row.line_num
          /\ \A t \in 1..row.line_num :
               LET m == KeptPair(xs, d, t)
                   a == xs[2 * m - 1]
                   b == xs[2 * m]
                   line == row.line_array[t]
               IN /\ a <= b /\ b - a > d
                  /\ 10 * line[1] = 10 * a + d
                  /\ 10 * line[2] = 10 * b - d
                  /\ 10 * (line[2] - line[1]) = 10 * (b - a) - 2 * d
  /\ pocket.seg_num = SumLineNum(pocket.row_array, pocket.row_num)
  /\ pc = "done" => pocket.row_num = Len(pooled)

\* A finished prep of two rows: four crossings were pooled for the first,
\* three of them distinct, its one pair is exactly as wide as the diameter
\* and dropped like the trailing crossing; the second row keeps a line.
C5_Witness ==
  /\ pc = "done" /\ pocket.row_num = 2
  /\ Len(pooled[1]) = 4 /\ Len(RowCrossings(1)) = 3
  /\ RowCrossings(1)[2] - RowCrossings(1)[1] = tool.diameter
  /\ pocket.row_array[1].line_num = 0
  /\ pocket.row_array[2].line_num = 1
  /\ pocket.seg_num = 1

(***************************************************************************)
(*                          gcode_pocket_make                              *)
(***************************************************************************)

\* What the macros append to the block, one event per macro.
AppendNewline == [op |-> "APPEND"]
Comment(z) == [op |-> "COMMENT", z |-> z]
Retract(z) == [op |-> "RETRACT", z |-> z]
Move2D(x, yy) == [op |-> "MOVE", x |-> x, y |-> yy]
Plummet(z) == [op |-> "PLUMMET", z |-> z]
Descend(z) == [op |-> "DESCEND", z |-> z]
Line2D(x, yy) == [op |-> "LINE", x |-> x, y |-> yy]

\* NoPocketing testing the row count instead of the segment count.
NoRows(p) == p.row_num = 0

\* if (pocket->seg_num == 0) return;
NoPocketing(p) == p.seg_num = 0

\* Narrow with <= for <.
NarrowOrEqual(line, d) == Abs(line[1] - line[2]) <= d

\* fabs (line_array[j][0] - line_array[j][1]) < tool->diameter
Narrow(line, d) == Abs(line[1] - line[2]) < d

\* if (rapid_depth >= depth - GCODE_PRECISION) GCODE_PLUMMET (block, rapid_depth);
PlummetEvents ==
  IF rapid_depth >= depth - GCODE_PRECISION THEN <<Plummet(rapid_depth)>> ELSE <<>>

\* OddLineEvents without the retract.
OddLineEventsNoRetract(line, yy) ==
  <<Move2D(line[2], yy)>> \o PlummetEvents \o <<Descend(depth), Line2D(line[1], yy)>>

\* Right to Left: the macros of one line of an odd row.
OddLineEvents(line, yy) ==
  <<Retract(gcode.ztraverse), Move2D(line[2], yy)>> \o PlummetEvents
    \o <<Descend(depth), Line2D(line[1], yy)>>

\* Left to Right: the macros of one line of an even row.
EvenLineEvents(line, yy) ==
  <<Retract(gcode.ztraverse), Move2D(line[1], yy)>> \o PlummetEvents
    \o <<Descend(depth), Line2D(line[2], yy)>>

\* j at the start of the loop over row r.
FirstLine(r) ==
  IF r < pocket.row_num /\ r % 2 = 1 THEN pocket.row_array[r + 1].line_num - 1 ELSE 0

MakeRow == pocket.row_array[i + 1]

MakeFrame == UNCHANGED <<pocket, pocket_a, pocket_b, heap_b, k, x_array, index_block,
                         y, tool, gcode, chain, depth, rapid_depth, a0, splits, oob,
                         pooled>>

\* seg_num == 0: return.
MakeNothing ==
  /\ pc = "make" /\ NoPocketing(pocket)
  /\ pc' = "done"
  /\ UNCHANGED <<events, i, j>>
  /\ MakeFrame

\* The pass depth comment between two new lines; i = 0.
MakeBegin ==
  /\ pc = "make" /\ ~NoPocketing(pocket)
  /\ events' = events \o <<AppendNewline, Comment(depth), AppendNewline>>
  /\ pc' = "rows" /\ i' = 0 /\ j' = FirstLine(0)
  /\ MakeFrame

\* if (i % 2): one pass of for (j = line_num - 1; j >= 0; j--).
MakeOddLine ==
  /\ pc = "rows" /\ i < pocket.row_num /\ i % 2 = 1 /\ j >= 0
  /\ events' = IF Narrow(MakeRow.line_array[j + 1], tool.diameter) THEN events
               ELSE events \o OddLineEvents(MakeRow.line_array[j + 1], MakeRow.y)
  /\ j' = j - 1
  /\ UNCHANGED <<pc, i>>
  /\ MakeFrame

\* else: one pass of for (j = 0; j < line_num; j++).
MakeEvenLine ==
  /\ pc = "rows" /\ i < pocket.row_num /\ i % 2 = 0 /\ j < MakeRow.line_num
  /\ events' = IF Narrow(MakeRow.line_array[j + 1], tool.diameter) THEN events
               ELSE events \o EvenLineEvents(MakeRow.line_array[j + 1], MakeRow.y)
  /\ j' = j + 1
  /\ UNCHANGED <<pc, i>>
  /\ MakeFrame

\* The loop over the lines of row i ends: i++.
MakeRowEnd ==
  /\ pc = "rows" /\ i < pocket.row_num
  /\ IF i % 2 = 1 THEN j < 0 ELSE j >= MakeRow.line_num
  /\ i' = i + 1 /\ j' = FirstLine(i + 1)
  /\ UNCHANGED <<pc, events>>
  /\ MakeFrame

\* The loop over the rows ends: the final retract.
MakeEnd ==
  /\ pc = "rows" /\ i >= pocket.row_num
  /\ events' = Append(events, Retract(gcode.ztraverse))
  /\ pc' = "done"
  /\ UNCHANGED <<i, j>>
  /\ MakeFrame

NextMake ==
  \/ MakeNothing
  \/ MakeBegin
  \/ MakeOddLine
  \/ MakeEvenLine
  \/ MakeRowEnd
  \/ MakeEnd

RECURSIVE SumLen(_, _)
SumLen(lineSeqs, n) == IF n = 0 THEN 0 ELSE Len(lineSeqs[n]) + SumLen(lineSeqs, n - 1)

\* The pocket gcode_pocket_make is called with: rows of ordered lines.  seg_num
\* counts the lines gcode_pocket_prep kept; gcode_pocket_subtract only adds
\* lines, so seg_num is 0 exactly when no row has a line.
InitMake ==
  /\ \E n \in 0..MakeRows :
       \E ls \in [1..n -> {l \in LineSeqs(MakeCoord, MakeLines) : WellFormed(l)}] :
         \E seg \in {Min(1, SumLen(ls, n)), SumLen(ls, n)} :
           pocket = Pocket(1, seg, [r \in 1..n |-> Row(r - 1, ls[r])])
  /\ \E d \in 1..2 : tool = [diameter |-> d]
  /\ depth = -3
  /\ rapid_depth \in {-5, -4, -2}
  /\ gcode = [material_size |-> Max(0, pocket.row_num - 1), material_origin |-> 0,
              ztraverse |-> 1]
  /\ pc = "make" /\ events = <<>> /\ i = 0 /\ j = 0 /\ k = 0
  /\ x_array = <<>> /\ index_block = 0 /\ y = 0 /\ chain = 0 /\ pooled = <<>>
  /\ pocket_a = PocketInit(1) /\ pocket_b = PocketInit(1) /\ heap_b = <<>>
  /\ a0 = pocket_a /\ splits = <<>> /\ oob = FALSE

SpecMake == InitMake /\ [][NextMake]_vars

(***************************************************************************)
(*                    Properties of gcode_pocket_make                      *)
(***************************************************************************)

IsOp(n, op) == n >= 1 /\ n <= Len(events) /\ events[n].op = op

\* Where the prelude of the cut at n starts: one event earlier when a rapid
\* plunge lies before the descend.
PreludeStart(n) == IF IsOp(n - 2, "PLUMMET") THEN n - 4 ELSE n - 3

\* The cut at n belongs to a line of the pocket: it ends at one end of the
\* line, and the move before it went to the other end, at the row's y.
SameLine(move, cut) ==
  \E r \in 1..pocket.row_num :
    /\ move.y = pocket.row_array[r].y /\ cut.y = pocket.row_array[r].y
    /\ \E n \in 1..pocket.row_array[r].line_num :
         LET line == pocket.row_array[r].line_array[n]
         IN \/ move.x = line[1] /\ cut.x = line[2]
            \/ move.x = line[2] /\ cut.x = line[1]

\* C6: every cut comes right after retract-to(ztraverse), rapid-move-to(near
\* end, row y), an optional rapid-plunge-to(rapid_depth) and
\* feed-descend-to(depth), in that order and for the line that is cut; a
\* retract lies between any two cuts; and the finished pass ends with one
\* retract, the only event after the last cut.
C6_CutPrelude ==
  /\ \A n \in 1..Len(events) :
       IsOp(n, "LINE") =>
         LET first == PreludeStart(n)
         IN /\ first >= 1
            /\ events[first] = Retract(gcode.ztraverse)
            /\ IsOp(first + 1, "MOVE")
            /\ SameLine(events[first + 1], events[n])
            /\ first = n - 4 => events[n - 2] = Plummet(rapid_depth)
            /\ events[n - 1] = Descend(depth)
            /\ \A m \in 1..(n - 1) :
                 IsOp(m, "LINE") => \E q \in (m + 1)..(n - 1) : IsOp(q, "RETRACT")
  /\ (pc = "done" /\ ~NoPocketing(pocket)) =>
       /\ events[Len(events)] = Retract(gcode.ztraverse)
       /\ \A n \in 1..Len(events) :
            (IsOp(n, "LINE") /\ \A m \in (n + 1)..Len(events) : ~IsOp(m, "LINE")) =>
              n + 1 = Len(events)

\* A finished pass that cut a line of an odd row after a rapid plunge.
C6_Witness ==
  /\ pc = "done" /\ rapid_depth = -4
  /\ \E n \in 1..Len(events) :
       /\ IsOp(n, "LINE") /\ events[n].y = 1
       /\ IsOp(n - 2, "PLUMMET") /\ IsOp(n - 4, "RETRACT")
       /\ n + 1 = Len(events)

\* The cuts among events n.., each with the x of the move before it.
RECURSIVE CutsFrom(_, _)
CutsFrom(n, movex) ==
  IF n > Len(events) THEN <<>>
  ELSE IF events[n].op = "MOVE" THEN CutsFrom(n + 1, events[n].x)
  ELSE IF events[n].op = "LINE"
       THEN <<<<movex, events[n].x, events[n].y>>>> \o CutsFrom(n + 1, movex)
  ELSE CutsFrom(n + 1, movex)

\* The lines of a row that are at least as wide as the diameter, from the
\* left, as <<start, end, y>>.
RECURSIVE WideLines(_, _, _)
WideLines(row, n, d) ==
  IF n > row.line_num THEN <<>>
  ELSE (IF Abs(row.line_array[n][2] - row.line_array[n][1]) >= d
        THEN <<<<row.line_array[n][1], row.line_array[n][2], row.y>>>> ELSE <<>>)
       \o WideLines(row, n + 1, d)

Reversed(seq) == [n \in 1..Len(seq) |-> seq[Len(seq) + 1 - n]]

\* The cuts of rows r.. of the pocket as <<entry x, exit x, y>>: an even row
\* from the left, start to end; an odd row from the right, end to start.
RECURSIVE ZigZag(_, _)
ZigZag(r, d) ==
  IF r > pocket.row_num THEN <<>>
  ELSE LET wide == WideLines(pocket.row_array[r], 1, d)
       IN (IF (r - 1) % 2 = 0 THEN wide
           ELSE [n \in 1..Len(wide) |-> <<Reversed(wide)[n][2], Reversed(wide)[n][1],
                                          Reversed(wide)[n][3]>>])
          \o ZigZag(r + 1, d)

IsPrefix(short, long) ==
  Len(short) <= Len(long) /\ short = SubSeq(long, 1, Len(short))

\* C7: the cuts are those of the rows in index order, an even row in
\* ascending stored order from start to end, an odd row in descending order
\* from end to start, each at the row's y; a line is left out exactly when
\* it is narrower than the diameter and every other line is cut once.
C7_ZigZagOrder ==
  /\ IsPrefix(CutsFrom(1, 0), ZigZag(1, tool.diameter))
  /\ pc = "done" => CutsFrom(1, 0) = ZigZag(1, tool.diameter)

\* A finished pass over three rows that cut two lines in the odd row, the
\* right one first, and left out a line narrower than the diameter.
C7_Witness ==
  /\ pc = "done" /\ pocket.row_num = 3 /\ tool.diameter = 1
  /\ pocket.row_array[2].line_array = <<<<0, 1>>, <<1, 2>>>>
  /\ pocket.row_array[1].line_array = <<<<0, 0>>, <<0, 2>>>>
  /\ pocket.row_array[3].line_num = 1
  /\ Len(CutsFrom(1, 0)) >= 3
  /\ CutsFrom(1, 0)[2] = <<2, 1, 1>>
  /\ CutsFrom(1, 0)[3] = <<1, 0, 1>>

\* C8: a pocket whose seg_num is 0 gets no event at all.
C8_NothingWhenNoSegments ==
  pocket.seg_num = 0 => events = <<>>

\* A finished call on a pocket of three rows without a line.
C8_Witness ==
  pc = "done" /\ pocket.seg_num = 0 /\ pocket.row_num = 3 /\ events = <<>>

=============================================================================
